---- MODULE Spec2Model ----
(***************************************************************************)
(* Execution core of the schemathesis runner                               *)
(* (src/schemathesis/runner/impl/core.py).                                 *)
(*                                                                         *)
(* The specifications of this module:                                      *)
(*   Spec        the event stream of BaseRunner.execute: the run           *)
(*               controller, the recursive scheduler _run_tests and the    *)
(*               single-test state machine run_test;                       *)
(*   SpecChecks  one call of run_checks over an ordered check list;        *)
(*   SpecRunTest one call of run_test, with the Checks the driven test     *)
(*               recorded into its TestResult.                             *)
(***************************************************************************)
EXTENDS Integers, Sequences, FiniteSets, TLC

\* ------------------------------------------------------------------ bounds
\* Most (endpoint, method, test) triples one maker yields.
MaxBreadth == 2
\* Largest stateful_recursion_limit a run is configured with.
MaxLimit == 1
\* Most single-test invocations started in one run.
MaxRuns == 3
\* Longest check list handed to run_checks.
MaxChecks == 2
\* Largest response-time budget, ms.
MaxBudget == 2
\* Largest elapsed time of a call, ms.
MaxElapsed == 3
\* Most Checks the driven test records into the TestResult of one run_test.
MaxRecorded == 2
\* Most add_case hooks registered for one test body.
MaxHooks == 2

VARIABLES
    exit_first,                 \* BaseRunner.exit_first
    stateful_recursion_limit,   \* BaseRunner.stateful_recursion_limit
    pc,                         \* where the generator chain of execute() is suspended
    stack,                      \* active _run_tests frames, outermost first: the level,
                                \* the triples taken from the maker, the Feedback the
                                \* maker belongs to (0: the schema) and the Feedback of
                                \* the current iteration (0: none yet)
    stream,                     \* events the consumer of execute() has received
    results,                    \* the TestResultSet created by execute()
    started,                    \* single-test invocations started so far
    resultsAtBefore,            \* history: results when the pending BeforeExecution was emitted
    checks,                     \* run_checks: the ordered check list and what each check does
    max_response_time,          \* run_checks: <<>> for None, <<b>> for a budget of b ms
    elapsed_time,               \* run_checks: elapsed time of the call, ms
    cpc,                        \* run_checks: position in the function
    idx,                        \* run_checks: index of the check the for loop is at
    result_checks,              \* run_checks: result.add_success / add_failure calls, in order
    check_results,              \* run_checks: the check_results list of the caller
    errors,                     \* run_checks: the local errors list (messages)
    evaluated,                  \* history: how often each predicate was called
    raised,                     \* run_checks: the errors handed to get_grouped_exception
    rt_test,                    \* run_test: the test argument, a callable or an InvalidSchema
    rt_does,                    \* run_test: what the driven test does when it is called
    rt_recorded,                \* run_test: the Checks the driven test records before it ends
    rt_level,                   \* run_test: recursion_level
    rt_pc,                      \* run_test: position in the generator
    rt_result,                  \* run_test: the TestResult built at line 111
    rt_status,                  \* run_test: the local status
    rt_results,                 \* run_test: the TestResultSet argument
    rt_prior,                   \* history: the TestResultSet when run_test was called
    rt_events,                  \* run_test: the events the generator has yielded
    rt_calls,                   \* history: how often the driven test was called
    store_interactions,         \* test body: the store_interactions argument
    tr_max_response_time,       \* test body: max_response_time, <<>> for None
    tr_nchecks,                 \* test body: how many check functions it is given
    add_case_hooks,             \* test body: what each registered add_case hook yields
    tr_pc,                      \* test body: position in network_test / add_cases
    tr_hook,                    \* add_cases: hooks the for loop has taken
    tr_result,                  \* test body: the Checks of the TestResult argument
    tr_interactions,            \* test body: the interactions stored in the TestResult
    tr_feedback,                \* test body: the test cases added to the Feedback
    tr_calls,                   \* history: the inner calls made, in order
    tr_hook_calls               \* history: the hook invocations, in order

runnerVars == <<exit_first, stateful_recursion_limit, pc, stack, stream, results,
                started, resultsAtBefore>>

checkVars == <<checks, max_response_time, elapsed_time, cpc, idx, result_checks,
               check_results, errors, evaluated, raised>>

runTestVars == <<rt_test, rt_does, rt_recorded, rt_level, rt_pc, rt_result, rt_status,
                 rt_results, rt_prior, rt_events, rt_calls>>

transportVars == <<store_interactions, tr_max_response_time, tr_nchecks, add_case_hooks,
                   tr_pc, tr_hook, tr_result, tr_interactions, tr_feedback, tr_calls,
                   tr_hook_calls>>

vars == <<runnerVars, checkVars, runTestVars, transportVars>>

\* ------------------------------------------------------------------ events
Initialized == [type |-> "Initialized"]
BeforeExecution(endpoint, level) ==
    [type |-> "BeforeExecution", endpoint |-> endpoint, recursion_level |-> level]
AfterExecution(endpoint, status) ==
    [type |-> "AfterExecution", endpoint |-> endpoint, status |-> status]
Interrupted == [type |-> "Interrupted"]
Finished(rs) == [type |-> "Finished", results |-> rs]

\* ------------------------------------------------------- run_test outcomes
\* What the body of the try block of run_test does: the test is an
\* InvalidSchema marker, the driven test returns, or it raises.
Outcomes == {"InvalidSchema", "Returned", "CheckFailed", "MultipleFailures", "Flaky",
             "Unsatisfiable", "KeyboardInterrupt", "AssertionTypeName",
             "AssertionOther", "Exception"}

\* reraise: the message of the InvalidSchema built from an AssertionError.
reraise(outcome) ==
    IF outcome = "AssertionTypeName" THEN "Invalid type name" ELSE "Unknown schema error"

\* The status assignments of run_test with MultipleFailures left to the
\* generic handler.
StatusOf_CheckFailedOnly(outcome) ==
    CASE outcome = "Returned" -> "success"
      [] outcome = "CheckFailed" -> "failure"
      [] OTHER -> "error"

\* The status the except clauses of run_test assign.
StatusOf(outcome) ==
    CASE outcome = "Returned" -> "success"
      [] outcome \in {"CheckFailed", "MultipleFailures"} -> "failure"
      [] OTHER -> "error"

\* The errors run_test adds to the TestResult.
ErrorsOf(outcome) ==
    CASE outcome \in {"Returned", "CheckFailed", "MultipleFailures"} -> <<>>
      [] outcome = "InvalidSchema" -> <<"InvalidSchema">>
      [] outcome = "Flaky" -> <<"Flaky">>
      [] outcome = "Unsatisfiable" -> <<"Unsatisfiable">>
      [] outcome \in {"AssertionTypeName", "AssertionOther"} -> <<reraise(outcome)>>
      [] OTHER -> <<"Exception">>

TestResult(endpoint, outcome) ==
    [endpoint |-> endpoint, status |-> StatusOf(outcome), errors |-> ErrorsOf(outcome)]

\* ------------------------------------------------------------- scheduler
Top == stack[Len(stack)]
Pop == SubSeq(stack, 1, Len(stack) - 1)

\* The guard of _run_tests off by one.
LevelExceeded_OffByOne(level) == level > stateful_recursion_limit + 1

\* Line 78: the guard of _run_tests.
LevelExceeded(level) == level > stateful_recursion_limit

\* A _run_tests generator that never finishes: its for loop starts over.
Return_StartsOver ==
    /\ stack' = stack
    /\ pc' = "loop"

\* A _run_tests generator returns: control goes back to the enclosing frame's
\* for loop (after its `yield from`), or to execute() when it was the outermost.
Return ==
    /\ stack' = Pop
    /\ pc' = IF Len(stack) > 1 THEN "loop" ELSE "end"

\* Calling _run_tests(maker, recursion_level = level): returns at once past the
\* limit, otherwise starts iterating the maker.
Call(level, maker) ==
    IF LevelExceeded(level)
    THEN /\ stack' = stack
         /\ pc' = IF stack = <<>> THEN "end" ELSE "loop"
    ELSE /\ stack' = Append(stack, [level |-> level, n |-> 0, maker |-> maker,
                                    feedback |-> 0])
         /\ pc' = "loop"

\* execute, lines 49-52: a new TestResultSet, then Initialized.
execute_start ==
    /\ pc = "init"
    /\ stream' = Append(stream, Initialized)
    /\ pc' = "initialized"
    /\ UNCHANGED <<exit_first, stateful_recursion_limit, stack, results, started,
                   resultsAtBefore>>
    /\ UNCHANGED checkVars
    /\ UNCHANGED runTestVars
    /\ UNCHANGED transportVars

\* _execute: delegates to _run_tests at recursion level 0.
execute_delegate ==
    /\ pc = "initialized"
    /\ Call(0, 0)
    /\ UNCHANGED <<exit_first, stateful_recursion_limit, stream, results, started,
                   resultsAtBefore>>
    /\ UNCHANGED checkVars
    /\ UNCHANGED runTestVars
    /\ UNCHANGED transportVars

\* _run_tests, lines 80-81 and run_test, lines 111-112: the maker yields another
\* triple, a new Feedback is made for it and run_test emits BeforeExecution; or
\* the maker is exhausted.
run_tests_next ==
    /\ pc = "loop"
    /\ \/ /\ Top.n < MaxBreadth
          /\ started < MaxRuns
          /\ stack' = [stack EXCEPT ![Len(stack)].n = @ + 1,
                                    ![Len(stack)].feedback = started + 1]
          /\ started' = started + 1
          /\ stream' = Append(stream, BeforeExecution(Top.n + 1, Top.level))
          /\ resultsAtBefore' = results
          /\ pc' = "test"
          /\ UNCHANGED results
       \/ /\ Return
          /\ UNCHANGED <<stream, results, started, resultsAtBefore>>
    /\ UNCHANGED <<exit_first, stateful_recursion_limit>>
    /\ UNCHANGED checkVars
    /\ UNCHANGED runTestVars
    /\ UNCHANGED transportVars

\* execute, were it to skip a failing AfterExecution and go on.
Forward_SkipsFailing(event) ==
    IF exit_first /\ event.type = "AfterExecution" /\ event.status \in {"error", "failure"}
    THEN /\ stream' = stream
         /\ pc' = "after"
    ELSE /\ stream' = Append(stream, event)
         /\ pc' = "after"

\* execute, were Finished to carry the result set as it was before the
\* failing invocation.
Forward_StaleResults(event) ==
    IF exit_first /\ event.type = "AfterExecution" /\ event.status \in {"error", "failure"}
    THEN /\ stream' = Append(stream, Finished(results))
         /\ pc' = "done"
    ELSE /\ stream' = Append(stream, event)
         /\ pc' = "after"

\* execute, lines 54-63, applied to an AfterExecution event of the scheduler.
Forward(event) ==
    IF exit_first /\ event.type = "AfterExecution" /\ event.status \in {"error", "failure"}
    THEN /\ stream' = Append(stream, Finished(results'))
         /\ pc' = "done"
    ELSE /\ stream' = Append(stream, event)
         /\ pc' = "after"

\* The interruption handler, were it to fall through to results.append.
OnKeyboardInterrupt_Appends ==
    /\ stream' = Append(stream, Interrupted)
    /\ pc' = "interrupted"
    /\ results' = Append(results, [endpoint |-> stack[Len(stack)].n, status |-> "error",
                                   errors |-> <<>>])

\* run_test, lines 144-146: the interruption handler.
OnKeyboardInterrupt ==
    /\ stream' = Append(stream, Interrupted)
    /\ pc' = "interrupted"
    /\ UNCHANGED results

\* run_test, lines 115-167, and the loop body of execute on its AfterExecution.
run_test ==
    /\ pc = "test"
    /\ \E outcome \in Outcomes :
         IF outcome = "KeyboardInterrupt"
         THEN OnKeyboardInterrupt
         ELSE /\ results' = Append(results, TestResult(Top.n, outcome))
              /\ Forward(AfterExecution(Top.n, StatusOf(outcome)))
    /\ UNCHANGED <<exit_first, stateful_recursion_limit, stack, started, resultsAtBefore>>
    /\ UNCHANGED checkVars
    /\ UNCHANGED runTestVars
    /\ UNCHANGED transportVars

\* _run_tests, lines 91-92: an Interrupted event of this level's run_test.
run_tests_interrupted ==
    /\ pc = "interrupted"
    /\ Return
    /\ UNCHANGED <<exit_first, stateful_recursion_limit, stream, results, started,
                   resultsAtBefore>>
    /\ UNCHANGED checkVars
    /\ UNCHANGED runTestVars
    /\ UNCHANGED transportVars

\* _run_tests, lines 94-96: the tests derived from this invocation's feedback.
run_tests_recurse ==
    /\ pc = "after"
    /\ Call(Top.level + 1, Top.feedback)
    /\ UNCHANGED <<exit_first, stateful_recursion_limit, stream, results, started,
                   resultsAtBefore>>
    /\ UNCHANGED checkVars
    /\ UNCHANGED runTestVars
    /\ UNCHANGED transportVars

\* execute, were it to skip Finished once an Interrupted event went by.
execute_finish_SkipsInterrupted ==
    /\ pc = "end"
    /\ stream' = IF \E j \in 1..Len(stream) : stream[j].type = "Interrupted"
                 THEN stream
                 ELSE Append(stream, Finished(results))
    /\ pc' = "done"
    /\ UNCHANGED <<exit_first, stateful_recursion_limit, stack, results, started,
                   resultsAtBefore>>
    /\ UNCHANGED checkVars
    /\ UNCHANGED runTestVars
    /\ UNCHANGED transportVars

\* execute, line 63: the delegated sequence ended.
execute_finish ==
    /\ pc = "end"
    /\ stream' = Append(stream, Finished(results))
    /\ pc' = "done"
    /\ UNCHANGED <<exit_first, stateful_recursion_limit, stack, results, started,
                   resultsAtBefore>>
    /\ UNCHANGED checkVars
    /\ UNCHANGED runTestVars
    /\ UNCHANGED transportVars

\* ------------------------------------------------------------- run_checks
\* check.__name__ of the i-th check of the list.
CheckName(i) == "check_" \o ToString(i)

\* What calling a check does: it returns a falsy value (None), returns a truthy
\* value, or raises an AssertionError whose str() is a message or is empty.
CheckBehaviours == {"return_falsy", "return_truthy", "assert_message", "assert_empty"}

\* str(exc) of the AssertionError a check raises.
StrOf(c) == IF c.does = "assert_message" THEN "bad " \o c.name ELSE ""

Raises(c) == c.does \in {"assert_message", "assert_empty"}

\* A Check as result.add_success / result.add_failure and Check(...) build it.
SuccessCheck(name) == [name |-> name, status |-> "success"]
FailureCheck(name, message) == [name |-> name, status |-> "failure", message |-> message]

\* Lines 201-204: the message recorded for a failed check.
MessageOf(c) ==
    IF StrOf(c) = "" THEN "Check '" \o c.name \o "' failed" ELSE StrOf(c)

\* Line 197 without the test of the return value.
Recorded_Always(c) == TRUE

\* Line 197: `if not skip_check`.
Recorded(c) == c.does = "return_falsy"

\* The check lists of length n: the i-th check is named CheckName(i).
CheckLists(n) ==
    { [i \in 1..n |-> [name |-> CheckName(i), does |-> f[i]]] :
        f \in [1..n -> CheckBehaviours] }

\* What run_checks has written so far: the Checks added to the TestResult, the
\* check_results list of the caller, the local errors list.
ChecksState(rc, cr, es) == [result_checks |-> rc, check_results |-> cr, errors |-> es]

\* Lines 194-207: the body of the for loop for check c.
AfterCheck(st, c) ==
    IF Raises(c)
    THEN ChecksState(Append(st.result_checks, FailureCheck(c.name, MessageOf(c))),
                     Append(st.check_results, FailureCheck(c.name, MessageOf(c))),
                     Append(st.errors, MessageOf(c)))
    ELSE IF Recorded(c)
    THEN ChecksState(Append(st.result_checks, SuccessCheck(c.name)),
                     Append(st.check_results, SuccessCheck(c.name)),
                     st.errors)
    ELSE st

\* run_checks, lines 193-207: one iteration of the for loop.
run_checks_check ==
    /\ cpc = "checks"
    /\ idx <= Len(checks)
    /\ evaluated' = [evaluated EXCEPT ![idx] = @ + 1]
    /\ LET st == AfterCheck(ChecksState(result_checks, check_results, errors), checks[idx])
       IN /\ result_checks' = st.result_checks
          /\ check_results' = st.check_results
          /\ errors' = st.errors
    /\ idx' = idx + 1
    /\ UNCHANGED <<checks, max_response_time, elapsed_time, cpc, raised>>
    /\ UNCHANGED runnerVars
    /\ UNCHANGED runTestVars
    /\ UNCHANGED transportVars

\* Line 209: `if max_response_time`, the truth value of an Optional[int].
BudgetSet(m) == m # <<>> /\ m[1] # 0

\* Line 210.
Exceeded(e, b) == e > b

ResponseTimeMessage(b) == "Response time exceeded the limit of " \o ToString(b) \o " ms"

\* Lines 209-215: the response-time check for budget m and elapsed time e.
AfterResponseTime(st, m, e) ==
    IF BudgetSet(m)
    THEN IF Exceeded(e, m[1])
         THEN ChecksState(Append(st.result_checks,
                                 FailureCheck("max_response_time", ResponseTimeMessage(m[1]))),
                          st.check_results,
                          Append(st.errors, ResponseTimeMessage(m[1])))
         ELSE ChecksState(Append(st.result_checks, SuccessCheck("max_response_time")),
                          st.check_results,
                          st.errors)
    ELSE st

\* run_checks, lines 209-215: the response-time check, after the loop.
run_checks_response_time ==
    /\ cpc = "checks"
    /\ idx > Len(checks)
    /\ LET st == AfterResponseTime(ChecksState(result_checks, check_results, errors),
                                   max_response_time, elapsed_time)
       IN /\ result_checks' = st.result_checks
          /\ check_results' = st.check_results
          /\ errors' = st.errors
    /\ cpc' = "finish"
    /\ UNCHANGED <<checks, max_response_time, elapsed_time, idx, evaluated, raised>>
    /\ UNCHANGED runnerVars
    /\ UNCHANGED runTestVars
    /\ UNCHANGED transportVars

\* Line 217, were it to need more than one error.
AnyErrors_MoreThanOne(es) == Len(es) > 1

\* Line 217: `if errors`.
AnyErrors(es) == es # <<>>

\* run_checks, lines 217-218: raise the grouped exception, or return.
run_checks_finish ==
    /\ cpc = "finish"
    /\ IF AnyErrors(errors)
       THEN /\ raised' = errors
            /\ cpc' = "raised"
       ELSE /\ raised' = <<>>
            /\ cpc' = "returned"
    /\ UNCHANGED <<checks, max_response_time, elapsed_time, idx, result_checks,
                   check_results, errors, evaluated>>
    /\ UNCHANGED runnerVars
    /\ UNCHANGED runTestVars
    /\ UNCHANGED transportVars

\* Lines 193-207: the for loop over the checks cs, from state st.
RECURSIVE AfterChecks(_, _)
AfterChecks(st, cs) ==
    IF cs = <<>> THEN st ELSE AfterChecks(AfterCheck(st, Head(cs)), Tail(cs))

\* run_checks as one call with a fresh check_results list: what it adds to the
\* TestResult, what it leaves in check_results, and the errors it has when it
\* reaches line 217.
run_checks(cs, m, e) ==
    AfterResponseTime(AfterChecks(ChecksState(<<>>, <<>>, <<>>), cs), m, e)

\* ---------------------------------------------------------------- run_test
\* One call of run_test for endpoint 1, followed through its generator.
EmptyResult == [checks |-> <<>>, errors |-> <<>>, is_errored |-> FALSE]

\* What the try block meets: the InvalidSchema marker, or what the test does.
Met == IF rt_test = "InvalidSchema" THEN "InvalidSchema" ELSE rt_does

\* The example of the last Check that failed.
FlakyExample_LastFailure(recorded) ==
    LET failed == SelectSeq(recorded, LAMBDA c : c.status = "failure")
    IN IF failed # <<>> THEN <<failed[Len(failed)].example>> ELSE <<>>

\* Lines 129-132: flaky_example.
FlakyExample(recorded) ==
    IF recorded # <<>> THEN <<recorded[Len(recorded)].example>> ELSE <<>>

\* result.add_error(exception, example) of the handler of an outcome.
AddedErrors(outcome, recorded) ==
    [k \in 1..Len(ErrorsOf(outcome)) |->
        [error |-> ErrorsOf(outcome)[k],
         example |-> IF outcome = "Flaky" THEN FlakyExample(recorded) ELSE <<>>]]

\* run_test, lines 111-114: the TestResult, then BeforeExecution.
run_test_before ==
    /\ rt_pc = "start"
    /\ rt_result' = EmptyResult
    /\ rt_events' = Append(rt_events, BeforeExecution(1, rt_level))
    /\ rt_pc' = "try"
    /\ UNCHANGED <<rt_test, rt_does, rt_recorded, rt_level, rt_status, rt_results,
                   rt_prior, rt_calls>>
    /\ UNCHANGED <<runnerVars, checkVars>>
    /\ UNCHANGED transportVars

\* run_test, lines 115-153: the try block and its except clauses.
run_test_try ==
    /\ rt_pc = "try"
    /\ LET recorded == IF rt_test = "InvalidSchema" THEN <<>> ELSE rt_recorded
       IN /\ rt_calls' = IF rt_test = "InvalidSchema" THEN rt_calls ELSE rt_calls + 1
          /\ rt_result' = [checks |-> recorded,
                           errors |-> IF Met = "KeyboardInterrupt" THEN <<>>
                                      ELSE AddedErrors(Met, recorded),
                           is_errored |-> Met = "Flaky"]
    /\ IF Met = "KeyboardInterrupt"
       THEN /\ rt_events' = Append(rt_events, Interrupted)
            /\ rt_pc' = "returned"
            /\ UNCHANGED rt_status
       ELSE /\ rt_status' = StatusOf(Met)
            /\ rt_pc' = "classified"
            /\ UNCHANGED rt_events
    /\ UNCHANGED <<rt_test, rt_does, rt_recorded, rt_level, rt_results, rt_prior>>
    /\ UNCHANGED <<runnerVars, checkVars>>
    /\ UNCHANGED transportVars

\* run_test, lines 154-167: results.append, then AfterExecution.
run_test_after ==
    /\ rt_pc = "classified"
    /\ rt_results' = Append(rt_results, rt_result)
    /\ rt_events' = Append(rt_events, AfterExecution(1, rt_status))
    /\ rt_pc' = "returned"
    /\ UNCHANGED <<rt_test, rt_does, rt_recorded, rt_level, rt_result, rt_status,
                   rt_prior, rt_calls>>
    /\ UNCHANGED <<runnerVars, checkVars>>
    /\ UNCHANGED transportVars

\* -------------------------------------------------------------- test body
\* network_test with its inner call _network_test and add_cases; wsgi_test
\* (lines 330-377) and asgi_test (lines 400-443) have the same statements
\* around run_checks. The primary case is case 0, the case hook k yields is
\* case k, and the response to a case carries the number of the case.

\* get_grouped_exception: the exception class it builds for the errors of
\* one call derives from CheckFailed.
get_grouped_exception(es) == [class |-> "CheckFailed", errors |-> es]

\* Lines 299 and 304-305: the status the interaction is stored with.
StatusStored(st) ==
    IF AnyErrors(st.errors) /\ get_grouped_exception(st.errors).class = "CheckFailed"
    THEN "failure"
    ELSE "success"

\* The finally clause, were it an else clause.
Stores_OnlyOnSuccess(store, failed) == store /\ ~failed

\* Lines 307-309: the finally clause runs whether run_checks returned or raised.
Stores(store, failed) == store

\* case.partial_deepcopy(), line 230.
partial_deepcopy(case) == [copy_of |-> case]

\* Line 232 without the test of what the hook yielded.
Usable_Always(yielded) == TRUE

\* Line 232: `if _case`.
Usable(yielded) == yielded # "empty"

\* _network_test, lines 297-311, called with `case`; `next` is where the caller
\* goes on when the call returns. The transport call answers or raises, every
\* check does one of the things a check can do for this case, and the call
\* takes some time.
inner_test(case, next) ==
    \E responds \in BOOLEAN, cs \in CheckLists(tr_nchecks), e \in 0..MaxElapsed :
        IF ~responds
        THEN /\ tr_calls' = Append(tr_calls, [case |-> case, response |-> FALSE,
                                              raised |-> FALSE, recorded |-> <<>>])
             /\ tr_pc' = "raised"
             /\ UNCHANGED <<tr_result, tr_interactions, tr_feedback>>
        ELSE LET st == run_checks(cs, tr_max_response_time, e)
                 failed == AnyErrors(st.errors)
             IN /\ tr_result' = tr_result \o st.result_checks
                /\ tr_interactions' =
                       IF Stores(store_interactions, failed)
                       THEN Append(tr_interactions,
                                   [response |-> case, status |-> StatusStored(st),
                                    checks |-> st.check_results])
                       ELSE tr_interactions
                /\ tr_feedback' = IF failed THEN tr_feedback
                                  ELSE Append(tr_feedback, [case |-> case, response |-> case])
                /\ tr_calls' = Append(tr_calls, [case |-> case, response |-> TRUE,
                                                 raised |-> failed,
                                                 recorded |-> st.result_checks])
                /\ tr_pc' = IF failed THEN "raised" ELSE next

\* network_test, lines 250-266: the primary call.
network_test ==
    /\ tr_pc = "primary"
    /\ inner_test(0, "add_cases")
    /\ UNCHANGED <<store_interactions, tr_max_response_time, tr_nchecks, add_case_hooks,
                   tr_hook, tr_hook_calls>>
    /\ UNCHANGED <<runnerVars, checkVars, runTestVars>>

\* add_cases, lines 229-233: one iteration of the loop over the hooks.
add_cases_hook ==
    /\ tr_pc = "add_cases"
    /\ tr_hook < Len(add_case_hooks)
    /\ tr_hook' = tr_hook + 1
    /\ tr_hook_calls' = Append(tr_hook_calls,
                               [hook |-> tr_hook + 1, case |-> partial_deepcopy(0),
                                response |-> 0])
    /\ IF Usable(add_case_hooks[tr_hook + 1])
       THEN inner_test(tr_hook + 1, "add_cases")
       ELSE UNCHANGED <<tr_pc, tr_result, tr_interactions, tr_feedback, tr_calls>>
    /\ UNCHANGED <<store_interactions, tr_max_response_time, tr_nchecks, add_case_hooks>>
    /\ UNCHANGED <<runnerVars, checkVars, runTestVars>>

\* add_cases, line 229: the hooks are exhausted, network_test returns.
add_cases_return ==
    /\ tr_pc = "add_cases"
    /\ tr_hook = Len(add_case_hooks)
    /\ tr_pc' = "returned"
    /\ UNCHANGED <<store_interactions, tr_max_response_time, tr_nchecks, add_case_hooks,
                   tr_hook, tr_result, tr_interactions, tr_feedback, tr_calls,
                   tr_hook_calls>>
    /\ UNCHANGED <<runnerVars, checkVars, runTestVars>>

\* ------------------------------------------------------------------ specs
\* The Check lists a driven test can have recorded: up to MaxRecorded Checks,
\* each with a status and the case it was recorded for.
RecordedChecks ==
    UNION { [1..n -> [status : {"success", "failure"}, example : 1..MaxRecorded]] :
            n \in 0..MaxRecorded }

InitRunTest ==
    /\ rt_test \in {"callable", "InvalidSchema"}
    /\ rt_does \in Outcomes \ {"InvalidSchema"}
    /\ rt_recorded \in RecordedChecks
    /\ rt_level \in 0..MaxLimit
    /\ rt_pc = "start"
    /\ rt_result = EmptyResult
    /\ rt_status = "unset"
    /\ rt_prior \in {<<>>, <<EmptyResult>>}
    /\ rt_results = rt_prior
    /\ rt_events = <<>>
    /\ rt_calls = 0

IdleRunTest ==
    /\ rt_test = "callable"
    /\ rt_does = "Returned"
    /\ rt_recorded = <<>>
    /\ rt_level = 0
    /\ rt_pc = "idle"
    /\ rt_result = EmptyResult
    /\ rt_status = "unset"
    /\ rt_prior = <<>>
    /\ rt_results = <<>>
    /\ rt_events = <<>>
    /\ rt_calls = 0

\* The registered add_case hooks: each yields an empty value or a case.
HookLists == UNION { [1..n -> {"empty", "case"}] : n \in 0..MaxHooks }

InitTransport ==
    /\ store_interactions \in BOOLEAN
    /\ tr_max_response_time \in {<<>>} \cup { <<b>> : b \in 0..MaxBudget }
    /\ tr_nchecks \in 0..MaxChecks
    /\ add_case_hooks \in HookLists
    /\ tr_pc = "primary"
    /\ tr_hook = 0
    /\ tr_result = <<>>
    /\ tr_interactions = <<>>
    /\ tr_feedback = <<>>
    /\ tr_calls = <<>>
    /\ tr_hook_calls = <<>>

IdleTransport ==
    /\ store_interactions = FALSE
    /\ tr_max_response_time = <<>>
    /\ tr_nchecks = 0
    /\ add_case_hooks = <<>>
    /\ tr_pc = "idle"
    /\ tr_hook = 0
    /\ tr_result = <<>>
    /\ tr_interactions = <<>>
    /\ tr_feedback = <<>>
    /\ tr_calls = <<>>
    /\ tr_hook_calls = <<>>

InitRunner ==
    /\ exit_first \in BOOLEAN
    /\ stateful_recursion_limit \in 0..MaxLimit
    /\ pc = "init"
    /\ stack = <<>>
    /\ stream = <<>>
    /\ results = <<>>
    /\ started = 0
    /\ resultsAtBefore = <<>>

IdleRunner ==
    /\ exit_first = FALSE
    /\ stateful_recursion_limit = 0
    /\ pc = "idle"
    /\ stack = <<>>
    /\ stream = <<>>
    /\ results = <<>>
    /\ started = 0
    /\ resultsAtBefore = <<>>

InitChecks ==
    /\ checks \in UNION { CheckLists(n) : n \in 0..MaxChecks }
    /\ max_response_time \in {<<>>} \cup { <<b>> : b \in 0..MaxBudget }
    /\ elapsed_time \in 0..MaxElapsed
    /\ cpc = "checks"
    /\ idx = 1
    /\ result_checks = <<>>
    /\ check_results = <<>>
    /\ errors = <<>>
    /\ evaluated = [i \in 1..Len(checks) |-> 0]
    /\ raised = <<>>

IdleChecks ==
    /\ checks = <<>>
    /\ max_response_time = <<>>
    /\ elapsed_time = 0
    /\ cpc = "idle"
    /\ idx = 1
    /\ result_checks = <<>>
    /\ check_results = <<>>
    /\ errors = <<>>
    /\ evaluated = <<>>
    /\ raised = <<>>

Init == InitRunner /\ IdleChecks /\ IdleRunTest /\ IdleTransport

Next ==
    \/ execute_start
    \/ execute_delegate
    \/ run_tests_next
    \/ run_test
    \/ run_tests_interrupted
    \/ run_tests_recurse
    \/ execute_finish

Spec == Init /\ [][Next]_vars

\* The consumer keeps iterating execute() and every driven test returns: a
\* step of the generator chain that can be taken is taken.
FairSpec == Spec /\ WF_vars(Next)

InitRunChecks == IdleRunner /\ InitChecks /\ IdleRunTest /\ IdleTransport

NextChecks ==
    \/ run_checks_check
    \/ run_checks_response_time
    \/ run_checks_finish

SpecChecks == InitRunChecks /\ [][NextChecks]_vars

InitSingleRunTest == IdleRunner /\ IdleChecks /\ InitRunTest /\ IdleTransport

NextRunTest ==
    \/ run_test_before
    \/ run_test_try
    \/ run_test_after

SpecRunTest == InitSingleRunTest /\ [][NextRunTest]_vars

InitTestBody == IdleRunner /\ IdleChecks /\ IdleRunTest /\ InitTransport

NextTestBody ==
    \/ network_test
    \/ add_cases_hook
    \/ add_cases_return

SpecTestBody == InitTestBody /\ [][NextTestBody]_vars

\* ------------------------------------------------------------ properties
\* Positions of the events of one type in the consumer's stream.
Positions(type) == { j \in 1..Len(stream) : stream[j].type = type }
Count(type) == Cardinality(Positions(type))
Last(s) == s[Len(s)]
Failing(status) == status \in {"failure", "error"}
WasInterrupted == Positions("Interrupted") # {}

\* C1: with exit_first, once an invocation has finished with status failure
\* or error, the finished stream holds that invocation's AfterExecution,
\* no BeforeExecution or AfterExecution after it, and exactly one Finished.
C1_StopKeepsFailingAfterExecution ==
    (pc = "done" /\ exit_first /\ \E k \in 1..Len(results) : Failing(results[k].status))
    => /\ \E j \in Positions("AfterExecution") :
            /\ Failing(stream[j].status)
            /\ \A m \in (j + 1)..Len(stream) :
                 stream[m].type \notin {"BeforeExecution", "AfterExecution"}
       /\ Count("Finished") = 1

\* C2: when the stream of an uninterrupted run has ended, it holds as many
\* AfterExecution events as TestResults were appended, and as many as
\* BeforeExecution events.
C2_CountsAgree ==
    (pc = "done" /\ ~WasInterrupted)
    => /\ Count("AfterExecution") = Len(results)
       /\ Count("AfterExecution") = Count("BeforeExecution")

\* C3: no BeforeExecution, AfterExecution or second Interrupted event follows
\* an Interrupted event, at whatever recursion level the interruption happened.
C3_NothingAfterInterrupted ==
    \A j \in Positions("Interrupted") :
        \A m \in (j + 1)..Len(stream) :
            stream[m].type \notin {"BeforeExecution", "AfterExecution", "Interrupted"}

C5_InterruptedAppendsNothing ==
    (stream # <<>> /\ Last(stream).type = "Interrupted")
    => /\ stream[Len(stream) - 1].type = "BeforeExecution"
       /\ results = resultsAtBefore

C5_Witness ==
    /\ pc = "interrupted"
    /\ Len(results) >= 1
    /\ Len(stack) >= 2

\* C6: every BeforeExecution event carries a recursion level in
\* 0..stateful_recursion_limit (level 0 alone when the limit is 0).
C6_LevelWithinLimit ==
    \A j \in Positions("BeforeExecution") :
        stream[j].recursion_level \in 0..stateful_recursion_limit

\* The recursion below the deepest allowed level was just refused: an
\* invocation at level = limit completed and its frame is back in its loop.
C6_Witness ==
    /\ pc = "loop"
    /\ stateful_recursion_limit >= 1
    /\ Last(stream).type = "AfterExecution"
    /\ Len(stack) = stateful_recursion_limit + 1
    /\ stack[Len(stack)].level = stateful_recursion_limit
    /\ \E j \in Positions("BeforeExecution") :
          stream[j].recursion_level = stateful_recursion_limit

\* run_checks has returned or raised.
ChecksDone == cpc \in {"returned", "raised"}
\* Positions in result.checks of the Checks with a given name.
Named(name) == { k \in 1..Len(result_checks) : result_checks[k].name = name }
WithStatus(status) == { k \in 1..Len(result_checks) : result_checks[k].status = status }
IsFailure(c) == c.status = "failure"

\* C7: every predicate of the list is called exactly once whatever the
\* earlier predicates did, and with a response-time budget configured (not
\* None) the last Check recorded is the max_response_time Check.
C7_AllEvaluatedBudgetLast ==
    ChecksDone
    => /\ \A i \in 1..Len(checks) : evaluated[i] = 1
       /\ max_response_time # <<>>
          => /\ result_checks # <<>>
             /\ Last(result_checks).name = "max_response_time"

\* C8 (as stated): exactly one Check per predicate, a success when it returned
\* (whatever it returned) and a failure when it raised, plus at most one
\* max_response_time Check.
C8_OneEntryPerPredicate ==
    ChecksDone
    => /\ \A i \in 1..Len(checks) :
            /\ Cardinality(Named(checks[i].name)) = 1
            /\ \A k \in Named(checks[i].name) :
                 result_checks[k].status =
                     IF Raises(checks[i]) THEN "failure" ELSE "success"
       /\ Cardinality(Named("max_response_time")) <= 1

\* C8 (amended): exactly one Check per predicate that raised an assertion (a
\* failure) or returned a falsy value (a success), none for a predicate that
\* returned a truthy value, at most one max_response_time Check, and no other
\* Check.
C8_OneEntryPerUnskippedPredicate ==
    ChecksDone
    => /\ \A i \in 1..Len(checks) :
            /\ Cardinality(Named(checks[i].name)) =
                   IF checks[i].does = "return_truthy" THEN 0 ELSE 1
            /\ \A k \in Named(checks[i].name) :
                 result_checks[k].status =
                     IF Raises(checks[i]) THEN "failure" ELSE "success"
       /\ Cardinality(Named("max_response_time")) <= 1
       /\ Len(result_checks) =
            Cardinality({ i \in 1..Len(checks) : checks[i].does # "return_truthy" })
            + Cardinality(Named("max_response_time"))

C8_Witness ==
    /\ ChecksDone
    /\ \E i \in 1..Len(checks) : checks[i].does = "return_truthy"
    /\ \E i \in 1..Len(checks) : checks[i].does = "return_falsy"
    /\ Named("max_response_time") # {}

\* C9: run_checks raises the grouped failure exactly when a Check it recorded
\* has status failure; the failure is built from the message of every failing
\* Check, in order; every success recorded is in the TestResult at that point.
C9_GroupedFailureIffFailedCheck ==
    ChecksDone
    => /\ (cpc = "raised") <=> (WithStatus("failure") # {})
       /\ cpc = "raised"
          => LET failed == SelectSeq(result_checks, IsFailure)
             IN raised = [k \in 1..Len(failed) |-> failed[k].message]
       /\ \A i \in 1..Len(checks) :
            checks[i].does = "return_falsy"
            => \E k \in WithStatus("success") : result_checks[k].name = checks[i].name

C9_Witness ==
    /\ cpc = "raised"
    /\ Len(raised) >= 2
    /\ WithStatus("success") # {}

\* C10: with a budget of B ms configured (B >= 0) and E ms elapsed, a failing
\* max_response_time Check is recorded iff E > B, a successful one otherwise.
C10_BudgetCheckIffExceeded ==
    (ChecksDone /\ max_response_time # <<>>)
    => LET B == max_response_time[1]
           E == elapsed_time
       IN /\ (E > B) <=> (Named("max_response_time") \cap WithStatus("failure") # {})
          /\ (E <= B) <=> (Named("max_response_time") \cap WithStatus("success") # {})

\* C14: in an uninterrupted run Initialized is the first event and occurs
\* once; every AfterExecution directly follows the BeforeExecution of the same
\* endpoint; no BeforeExecution directly follows another one; and once the
\* stream has ended Finished is its last event and occurs once.
C14_EventOrder ==
    (stream # <<>> /\ ~WasInterrupted)
    => /\ Positions("Initialized") = {1}
       /\ \A j \in Positions("AfterExecution") :
            /\ stream[j - 1].type = "BeforeExecution"
            /\ stream[j - 1].endpoint = stream[j].endpoint
       /\ \A j \in Positions("BeforeExecution") :
            stream[j - 1].type # "BeforeExecution"
       /\ Positions("Finished") = IF pc = "done" THEN {Len(stream)} ELSE {}

C14_Witness ==
    /\ pc = "done"
    /\ ~WasInterrupted
    /\ Count("AfterExecution") >= 2
    /\ \E j \in Positions("BeforeExecution") : stream[j].recursion_level = 1

\* C15: execute() terminates: with finitely many triples per maker and every
\* driven test returning, the stream reaches its terminal event.
C15_Terminates == <>(pc = "done")

C15_Witness ==
    /\ pc = "done"
    /\ started = MaxRuns
    /\ Last(stream).type = "Finished"
    /\ \E j \in Positions("BeforeExecution") : stream[j].recursion_level = 1

\* C16: between two BeforeExecution events of one level n with no event of a
\* lower level between them, every BeforeExecution of a deeper level is
\* directly followed by its AfterExecution; and every nested _run_tests
\* iterates the Feedback made for the current invocation of the enclosing
\* level, one level deeper, that Feedback being the newest of all.
C16_DepthFirstOwnFeedback ==
    /\ \A i, j \in Positions("BeforeExecution") :
         ( /\ i < j
           /\ stream[i].recursion_level = stream[j].recursion_level
           /\ \A m \in (i + 1)..(j - 1) :
                stream[m].type = "BeforeExecution"
                => stream[m].recursion_level > stream[i].recursion_level )
         => \A m \in (i + 1)..(j - 1) :
               stream[m].type = "BeforeExecution"
               => /\ m + 1 < j
                  /\ stream[m + 1].type = "AfterExecution"
                  /\ stream[m + 1].endpoint = stream[m].endpoint
    /\ \A k \in 2..Len(stack) :
         /\ stack[k].maker = stack[k - 1].feedback
         /\ stack[k].maker # 0
         /\ stack[k].level = stack[k - 1].level + 1
         /\ \A h \in 1..Len(stack) : h # k - 1 => stack[h].feedback # stack[k].maker

\* One step of the TestResultSet: unchanged, or one TestResult more at the end.
AppendOnly ==
    \/ results' = results
    \/ /\ Len(results') = Len(results) + 1
       /\ SubSeq(results', 1, Len(results)) = results

\* C17: every step leaves the TestResultSet unchanged or appends one
\* TestResult at its end, and with exit_first the Finished event carries every
\* TestResult appended, the one of the failing invocation included.
C17_AppendOnlyFinishedComplete ==
    [][ /\ AppendOnly
        /\ (exit_first /\ pc' = "done")
           => /\ Last(stream') = Finished(results')
              /\ \A k \in 1..Len(results) : results'[k] = results[k]
              /\ Len(results') > Len(results) => Failing(Last(results').status) ]_vars

C17_Witness ==
    /\ pc = "done"
    /\ exit_first
    /\ Len(results) >= 2
    /\ Failing(Last(results).status)
    /\ Last(stream) = Finished(results)

\* run_test has ended without an interruption.
RunTestCompleted == rt_pc = "returned" /\ Met # "KeyboardInterrupt"

\* The status the classification of spec 4.3 gives each outcome.
ClassifiedStatus ==
    [o \in Outcomes \ {"KeyboardInterrupt"} |->
        CASE o = "Returned" -> "success"
          [] o = "CheckFailed" -> "failure"
          [] o = "MultipleFailures" -> "failure"
          [] o = "InvalidSchema" -> "error"
          [] o = "Flaky" -> "error"
          [] o = "Unsatisfiable" -> "error"
          [] o = "AssertionTypeName" -> "error"
          [] o = "AssertionOther" -> "error"
          [] o = "Exception" -> "error"]

\* C11: an invocation that is not interrupted ends with one status, one
\* TestResult appended and one AfterExecution carrying that status; the status
\* follows the classification; an InvalidSchema marker is never called; an
\* assertion that is no CheckFailed is recorded as a schema error; a success
\* and a failure record no error.
C11_OneStatusOneResultOneEvent ==
    RunTestCompleted
    => /\ rt_status = ClassifiedStatus[Met]
       /\ rt_results = Append(rt_prior, rt_result)
       /\ rt_events = <<BeforeExecution(1, rt_level), AfterExecution(1, rt_status)>>
       /\ rt_calls = IF rt_test = "InvalidSchema" THEN 0 ELSE 1
       /\ Met \in {"AssertionTypeName", "AssertionOther"}
          => /\ Len(rt_result.errors) = 1
             /\ rt_result.errors[1].error \in {"Invalid type name", "Unknown schema error"}
       /\ (rt_result.errors = <<>>) <=> (rt_status \in {"success", "failure"})

C11_Witness ==
    /\ RunTestCompleted
    /\ Met = "MultipleFailures"
    /\ rt_prior # <<>>

\* The flaky error of the TestResult, when the invocation met Flaky.
FlakyCompleted == rt_pc = "returned" /\ Met = "Flaky"
FailedRecorded == SelectSeq(rt_result.checks, LAMBDA c : c.status = "failure")

\* C18 (as stated): a flaky invocation ends with status error and its error
\* carries the example of the last Check whose status is failure, or no
\* example when the TestResult holds no failed Check.
C18_FlakyExampleOfLastFailure ==
    FlakyCompleted
    => /\ rt_status = "error"
       /\ rt_result.errors[1].example =
            IF FailedRecorded # <<>> THEN <<Last(FailedRecorded).example>> ELSE <<>>

\* C18 (amended): a flaky invocation ends with status error and its error
\* carries the example of the last Check recorded, whatever its status, or
\* no example when the TestResult holds no Check.
C18_FlakyExampleOfLastCheck ==
    FlakyCompleted
    => /\ rt_status = "error"
       /\ rt_result.is_errored
       /\ Len(rt_result.errors) = 1
       /\ rt_result.errors[1].error = "Flaky"
       /\ rt_result.errors[1].example =
            IF rt_result.checks # <<>> THEN <<Last(rt_result.checks).example>> ELSE <<>>

\* The first call failed a Check for one case, the last Check recorded is a
\* success for another case.
C18_Witness ==
    /\ FlakyCompleted
    /\ Len(rt_result.checks) >= 2
    /\ FailedRecorded # <<>>
    /\ Last(rt_result.checks).status = "success"
    /\ Last(rt_result.checks).example # Last(FailedRecorded).example

\* The inner calls whose transport call returned a response, in order.
Answered == SelectSeq(tr_calls, LAMBDA c : c.response)

\* The test body has ended: network_test returned or an exception left it.
TestBodyEnded == tr_pc \in {"returned", "raised"}

\* The primary call returned its response to network_test.
PrimaryReturned == tr_calls # <<>> /\ tr_calls[1].response /\ ~tr_calls[1].raised

\* How many inner calls were made with the case of hook k.
CallsFor(k) == Cardinality({ i \in DOMAIN tr_calls : tr_calls[i].case = k })

\* C12: every executed case, with its response, is in the Feedback, whether
\* its checks passed or a grouped check failure was raised.
C12_FeedbackHasEveryExecutedCase ==
    \A i \in DOMAIN Answered :
        \E j \in DOMAIN tr_feedback :
            tr_feedback[j] = [case |-> Answered[i].case, response |-> Answered[i].case]

\* C13: with interaction storage enabled, every inner call whose transport
\* call returned a response has stored exactly one interaction, already when
\* the grouped failure has left the call, and its status is failure exactly
\* when the grouped check failure was raised.
C13_OneInteractionPerAnsweredCall ==
    store_interactions
    => /\ Len(tr_interactions) = Len(Answered)
       /\ \A k \in DOMAIN Answered :
            /\ tr_interactions[k].response = Answered[k].case
            /\ tr_interactions[k].status \in {"success", "failure"}
            /\ (tr_interactions[k].status = "failure") <=> Answered[k].raised

\* The primary call passed and stored a success, the call of a derived case
\* raised the grouped failure and its interaction is stored as a failure.
C13_Witness ==
    /\ store_interactions
    /\ tr_pc = "raised"
    /\ Len(tr_interactions) = 2
    /\ tr_interactions[1].status = "success"
    /\ tr_interactions[2].status = "failure"
    /\ Last(tr_calls).raised

\* C19 (as stated): once the primary call has returned, every registered hook
\* is invoked exactly once, in registration order, with a copy of the
\* original case and the primary response, and every non-empty case yielded
\* is executed exactly once, whatever the derived cases of earlier hooks did.
C19_EveryHookInvoked ==
    (TestBodyEnded /\ PrimaryReturned)
    => /\ tr_hook_calls = [k \in 1..Len(add_case_hooks) |->
                             [hook |-> k, case |-> partial_deepcopy(0), response |-> 0]]
       /\ \A k \in 1..Len(add_case_hooks) :
            CallsFor(k) = IF add_case_hooks[k] = "case" THEN 1 ELSE 0

\* C19 (amended): hooks are invoked only after the primary call has returned,
\* in registration order, each at most once, with a copy of the original case
\* and the primary response; the non-empty case an invoked hook yields is
\* executed exactly once and an empty one is not executed; when network_test
\* returns every hook has been invoked, and when the call of a derived case
\* raises, the exception leaves the test body and the hooks after it are not
\* invoked.
C19_HooksInvokedUntilACallRaises ==
    /\ tr_hook_calls = [k \in 1..tr_hook |->
                          [hook |-> k, case |-> partial_deepcopy(0), response |-> 0]]
    /\ tr_hook > 0 => PrimaryReturned
    /\ \A k \in 1..Len(add_case_hooks) :
         CallsFor(k) = IF k <= tr_hook /\ add_case_hooks[k] = "case" THEN 1 ELSE 0
    /\ tr_pc = "returned" => tr_hook = Len(add_case_hooks)
    /\ (tr_pc = "raised" /\ PrimaryReturned)
         => /\ Last(tr_calls).case = tr_hook
            /\ Last(tr_calls).raised \/ ~Last(tr_calls).response
    /\ \A i \in DOMAIN tr_calls :
         (i < Len(tr_calls)) => (tr_calls[i].response /\ ~tr_calls[i].raised)

\* Two hooks are registered, the derived case of the first failed its checks
\* and the second hook was never invoked.
C19_Witness ==
    /\ tr_pc = "raised"
    /\ PrimaryReturned
    /\ Len(add_case_hooks) = 2
    /\ tr_hook = 1
    /\ Last(tr_calls).raised
    /\ Len(tr_hook_calls) = 1

\* C20: with interaction storage enabled, the check list stored with the
\* interaction of a call is the sequence of Checks the call recorded into the
\* TestResult, the max_response_time Check included.
C20_StoredChecksAreRecordedChecks ==
    store_interactions
    => \A k \in DOMAIN Answered :
         k \in DOMAIN tr_interactions => tr_interactions[k].checks = Answered[k].recorded

====
